---- MODULE Spec2Model ----
(***************************************************************************)
(* A model of nflmodel/model.py (class MeloNFL): the game-table            *)
(* featurizer format_gamedata, the bias and regression functions, the      *)
(* burn-in of the training metric, the constructor and the calibration     *)
(* driver from_cache.                                                      *)
(*                                                                         *)
(* Data frames are sequences of records (one record per row, the field     *)
(* idx being the row label).  Dates are whole days.  Real-valued           *)
(* hyperparameters are fixed-point integers.                               *)
(***************************************************************************)
EXTENDS Integers, Sequences, FiniteSets, TLC

VARIABLES
    pc,         \* where the operation under way stands
    rawGames,   \* the game log handed to format_gamedata (load_games' result)
    table,      \* format_gamedata's return value, <<>> before the call
    self,       \* the MeloNFL instance under construction or in use
    game,       \* the game row handed to bias
    months,     \* the elapsed time handed to regress, in tenths of a month
    residuals,  \* Melo.residuals() after the fit, one value per game
    ret,        \* the values returned so far by the function under check
    args,       \* from_cache's or the constructor's arguments
    entry,      \* the cache files as they were when from_cache was called
    cache,      \* cachedir: the content of <mode>.pkl for every mode
    trials,     \* hyperopt's Trials: the points tried and their losses
    events,     \* the calls made to the collaborators, in order
    result,     \* what the call returned, or the exception it raised
    caller,     \* who called the constructor: the user, objective or from_cache
    nextId      \* the identity of the next MeloNFL object created

fmtVars == <<rawGames, table>>
pureVars == <<game, months, residuals, ret>>
calVars == <<args, entry, cache, trials, events, result, caller, nextId>>
vars == <<pc, rawGames, table, self, game, months, residuals, ret,
          args, entry, cache, trials, events, result, caller, nextId>>

----------------------------------------------------------------------------
(* Bounds of the checked inputs *)

MaxGames == 3

Days == {0, 10, 21}

\* <<home team, home quarterback, away team, away quarterback>>
Matchups ==
    {<<"SD", "Rivers", "NE", "Brady">>,
     <<"NE", "Brady", "LAC", "Rivers">>,
     <<"JAC", "Bortles", "STL", "Goff">>,
     <<"LAC", "Rivers", "JAX", "Bortles">>,
     <<"LA", "Brady", "JAX", "Goff">>,
     <<"NE", "Goff", "SD", "Bortles">>}

LabelBases == {0, 1}

TieOrders == {"keep", "reverse"}

----------------------------------------------------------------------------
(* pandas primitives used by format_gamedata *)

NaT == <<>>

\* DataFrame.sort_values('datetime').  The default sort is an unstable
\* quicksort: rows of equal datetime may come out in either order.  tie says
\* whether this call keeps or reverses the order of equal rows.
InsertSorted(row, sorted, tie) ==
    LET before == IF tie = "keep"
                    THEN {j \in DOMAIN sorted : sorted[j].datetime <= row.datetime}
                    ELSE {j \in DOMAIN sorted : sorted[j].datetime < row.datetime}
        k == Cardinality(before)
    IN  SubSeq(sorted, 1, k) \o <<row>> \o SubSeq(sorted, k + 1, Len(sorted))

RECURSIVE SortValues(_, _)
SortValues(df, tie) ==
    IF df = <<>> THEN <<>>
    ELSE InsertSorted(df[Len(df)], SortValues(SubSeq(df, 1, Len(df) - 1), tie), tie)

\* DataFrame.replace(old, new, inplace=True): every cell equal to old, in
\* every column, becomes new.
ReplaceCell(v, old, new) == IF v = old THEN new ELSE v

Replace(df, old, new) ==
    [i \in DOMAIN df |->
        [df[i] EXCEPT !.team_home = ReplaceCell(@, old, new),
                      !.team_away = ReplaceCell(@, old, new),
                      !.qb_home = ReplaceCell(@, old, new),
                      !.qb_away = ReplaceCell(@, old, new)]]

\* games[['datetime', 'team_<side>']].rename(columns={'team_<side>': 'team'})
TeamOf(row, side) == IF side = "home" THEN row.team_home ELSE row.team_away

TeamColumn(df, side) ==
    [i \in DOMAIN df |->
        [idx |-> df[i].idx, datetime |-> df[i].datetime, team |-> TeamOf(df[i], side)]]

\* pd.concat([home rows, away rows]).sort_values('datetime')
GameDates(df, tie) ==
    SortValues(TeamColumn(df, "home") \o TeamColumn(df, "away"), tie)

\* games_prev['date_<side>_prev'] = games.datetime: the assignment aligns on
\* the row label.  A row of games_prev gets the datetime of the row of games
\* that has the same label, NaT when games has no such label.
DatetimeAt(df, label) ==
    IF \E i \in DOMAIN df : df[i].idx = label
      THEN <<df[CHOOSE i \in DOMAIN df : df[i].idx = label].datetime>>
      ELSE NaT

GamesPrev(game_dates, df) ==
    [j \in DOMAIN game_dates |->
        [datetime |-> game_dates[j].datetime,
         team |-> game_dates[j].team,
         date_prev |-> DatetimeAt(df, game_dates[j].idx)]]

\* pd.merge_asof(games, games_prev, on='datetime', by='team_<side>',
\* allow_exact_matches=False): a left join; each row of games takes the
\* columns of the last row of games_prev with the same team and a strictly
\* earlier datetime (NaT when there is none).  The result has a fresh
\* RangeIndex.
AsofMatch(row, games_prev, side) ==
    LET cand == {j \in DOMAIN games_prev :
                    /\ games_prev[j].team = TeamOf(row, side)
                    /\ games_prev[j].datetime < row.datetime}
    IN  IF cand = {} THEN NaT
        ELSE games_prev[CHOOSE j \in cand : \A k \in cand : k <= j].date_prev

WithPrev(row, side, prev) ==
    IF side = "home" THEN row @@ [date_home_prev |-> prev]
                     ELSE row @@ [date_away_prev |-> prev]

\* An inner join in the place of merge_asof's left join: the rows with no
\* earlier game of the team are lost.
MergeAsofInner(df, games_prev, side) ==
    LET Matched(row) == AsofMatch(row, games_prev, side) # NaT
        kept == SelectSeq(df, Matched)
    IN  [i \in DOMAIN kept |->
            WithPrev([kept[i] EXCEPT !.idx = i - 1], side,
                     AsofMatch(kept[i], games_prev, side))]

MergeAsof(df, games_prev, side) ==
    [i \in DOMAIN df |->
        WithPrev([df[i] EXCEPT !.idx = i - 1], side,
                 AsofMatch(df[i], games_prev, side))]

\* One pass of the loop "for team in ['home', 'away']" of the rest
\* computation.
RestPass(df, game_dates, side) ==
    MergeAsof(df, GamesPrev(game_dates, df), side)

\* (games.datetime - games.date_<side>_prev) > pd.Timedelta('10 days'); a
\* comparison with NaT is False.
TenDays == 10

RestedFlag(datetime, prev) ==
    IF prev = NaT THEN FALSE ELSE datetime - prev[1] > TenDays

AddRested(df) ==
    [i \in DOMAIN df |->
        df[i] @@ [rested_home |-> RestedFlag(df[i].datetime, df[i].date_home_prev),
                  rested_away |-> RestedFlag(df[i].datetime, df[i].date_away_prev)]]

\* games['home'] = games['team_home'] + '-' + games['qb_home'], and away
AddLabels(df) ==
    [i \in DOMAIN df |->
        df[i] @@ [home |-> <<df[i].team_home, "-", df[i].qb_home>>,
                  away |-> <<df[i].team_away, "-", df[i].qb_away>>]]

\* games[['datetime', 'qb_<side>']].rename(columns={'qb_<side>': 'qb'})
QbOf(row, side) == IF side = "home" THEN row.qb_home ELSE row.qb_away

QbColumn(df, side) ==
    [i \in DOMAIN df |-> [datetime |-> df[i].datetime, qb |-> QbOf(df[i], side)]]

\* A count that takes in the row itself: cumcount() + 1.
QbExpInclusive(df, tie) ==
    LET rows == SortValues(QbColumn(df, "home") \o QbColumn(df, "away"), tie)
    IN  [j \in DOMAIN rows |->
            rows[j] @@ [exp |-> Cardinality({k \in 1..j : rows[k].qb = rows[j].qb})]]

\* qb_exp = pd.concat([qb_home, qb_away]).sort_values('datetime');
\* qb_exp['exp'] = qb_exp.groupby('qb').cumcount(): the number of rows of
\* the same qb that come before the row.
QbExp(df, tie) ==
    LET rows == SortValues(QbColumn(df, "home") \o QbColumn(df, "away"), tie)
    IN  [j \in DOMAIN rows |->
            rows[j] @@ [exp |-> Cardinality({k \in 1..(j - 1) :
                                                rows[k].qb = rows[j].qb})]]

\* games.merge(qb_exp.rename(...), on=['datetime', 'qb_<side>']): an inner
\* join in the order of the left rows; a left row comes out once for every
\* row of qb_exp with its datetime and its quarterback.
WithExp(row, side, exp) ==
    IF side = "home" THEN row @@ [exp_home |-> exp]
                     ELSE row @@ [exp_away |-> exp]

RECURSIVE MatchesOf(_, _, _, _)
MatchesOf(row, qb_exp, side, j) ==
    IF j > Len(qb_exp) THEN <<>>
    ELSE (IF /\ qb_exp[j].datetime = row.datetime
             /\ qb_exp[j].qb = QbOf(row, side)
            THEN <<WithExp(row, side, qb_exp[j].exp)>>
            ELSE <<>>) \o MatchesOf(row, qb_exp, side, j + 1)

RECURSIVE MergeExp(_, _, _, _)
MergeExp(df, qb_exp, side, i) ==
    IF i > Len(df) THEN <<>>
    ELSE MatchesOf(df[i], qb_exp, side, 1) \o MergeExp(df, qb_exp, side, i + 1)

Reindex(df) == [i \in DOMAIN df |-> [df[i] EXCEPT !.idx = i - 1]]

\* format_gamedata(games), statement by statement.  ties[1], ties[2] and
\* ties[3] are the tie orders of the three sorts whose result is used (the
\* game_dates table of lines 119-124 is rebuilt, unchanged, at 131-136).
format_gamedata(raw, ties) ==
    LET sorted     == SortValues(raw, ties[1])
        renamed    == Replace(Replace(Replace(sorted, "JAC", "JAX"),
                                      "SD", "LAC"), "STL", "LA")
        labelled   == AddLabels(renamed)
        game_dates == GameDates(labelled, ties[2])
        withHome   == RestPass(labelled, game_dates, "home")
        withAway   == RestPass(withHome, game_dates, "away")
        rested     == AddRested(withAway)
        qb_exp     == QbExp(rested, ties[3])
        expHome    == Reindex(MergeExp(rested, qb_exp, "home", 1))
    IN  Reindex(MergeExp(expHome, qb_exp, "away", 1))

----------------------------------------------------------------------------
(* The game logs the featurizer is checked on *)

Canonical(t) ==
    ReplaceCell(ReplaceCell(ReplaceCell(t, "JAC", "JAX"), "SD", "LAC"), "STL", "LA")

\* One game: a matchup on a day.
Fixtures ==
    {[datetime |-> d, team_home |-> m[1], qb_home |-> m[2],
      team_away |-> m[3], qb_away |-> m[4]] : d \in Days, m \in Matchups}

FranchisesOf(f) == {Canonical(f.team_home), Canonical(f.team_away)}

QbsOf(f) == {f.qb_home, f.qb_away}

\* No franchise and no quarterback plays two games at the same time.
WellFormed(log) ==
    \A i, j \in DOMAIN log :
        (i < j /\ log[i].datetime = log[j].datetime) =>
            /\ FranchisesOf(log[i]) \cap FranchisesOf(log[j]) = {}
            /\ QbsOf(log[i]) \cap QbsOf(log[j]) = {}

\* The rows carry the scores 10*i + 3 and 10*i of their place i in the log,
\* which tells the rows of one log apart, and the labels base, base + 1, ...
RowOf(f, i, base) ==
    f @@ [idx |-> base + i - 1, score_home |-> 10 * i + 3, score_away |-> 10 * i]

GameLogs ==
    UNION {{[i \in 1..n |-> RowOf(fs[i], i, base)] :
                fs \in {g \in [1..n -> Fixtures] : WellFormed(g)},
                base \in LabelBases} : n \in 0..MaxGames}

----------------------------------------------------------------------------
(* Specification of the featurizer *)

NoSelf == [mode |-> "none"]

FormatIdle == rawGames = <<>> /\ table = <<>>

PureIdle == game = <<>> /\ months = 0 /\ residuals = <<>> /\ ret = <<>>

CalIdle ==
    /\ args = <<>> /\ entry = <<>> /\ cache = <<>> /\ trials = <<>>
    /\ events = <<>> /\ result = <<>> /\ caller = "none" /\ nextId = 1

InitFormat ==
    /\ pc = "format_gamedata"
    /\ rawGames \in GameLogs
    /\ table = <<>>
    /\ self = NoSelf
    /\ PureIdle
    /\ CalIdle

FormatGamedata ==
    /\ pc = "format_gamedata"
    /\ \E ties \in [1..3 -> TieOrders] :
          table' = format_gamedata(rawGames, ties)
    /\ pc' = "formatted"
    /\ UNCHANGED <<rawGames, self, pureVars, calVars>>

NextFormat == FormatGamedata

SpecFormat == InitFormat /\ [][NextFormat]_vars

----------------------------------------------------------------------------
(* Claims about format_gamedata *)

Max(S) == CHOOSE x \in S : \A y \in S : y <= x

\* The dates of the games of the log that a franchise played before date d.
EarlierDates(team, d) ==
    {rawGames[j].datetime : j \in {k \in DOMAIN rawGames :
        /\ Canonical(team) \in FranchisesOf(rawGames[k])
        /\ rawGames[k].datetime < d}}

ExpectedRested(team, d) ==
    /\ EarlierDates(team, d) # {}
    /\ d - Max(EarlierDates(team, d)) > 10

\* C3: for every game of format_gamedata's output and each side, rested is
\* true exactly when the side's team played a strictly earlier game and
\* this game is more than 10 days after the most recent of them, whatever
\* the row order and the row labels of the input.
C3_RestedBothSides ==
    pc = "formatted" =>
        \A i \in DOMAIN table :
            /\ table[i].rested_home
                  = ExpectedRested(table[i].team_home, table[i].datetime)
            /\ table[i].rested_away
                  = ExpectedRested(table[i].team_away, table[i].datetime)

\* The home half of C3, which the code does satisfy.
RestedHomeCorrect ==
    pc = "formatted" =>
        \A i \in DOMAIN table :
            table[i].rested_home
              = ExpectedRested(table[i].team_home, table[i].datetime)

\* The input is in date order (ties in any order) under the default labels
\* 0, 1, 2, ...
ChronologicalRangeIndex ==
    /\ \A i \in DOMAIN rawGames : rawGames[i].idx = i - 1
    /\ \A i, j \in DOMAIN rawGames :
          i < j => rawGames[i].datetime <= rawGames[j].datetime

\* On such an input both halves of C3 hold.
RestedCorrectOnChronologicalInput ==
    ChronologicalRangeIndex => C3_RestedBothSides

\* The number of games of the log, before date d, in which qb appeared.
EarlierAppearances(qb, d) ==
    Cardinality({k \in DOMAIN rawGames :
        /\ qb \in QbsOf(rawGames[k])
        /\ rawGames[k].datetime < d})

\* C4: for every game of the output and each side, the quarterback's
\* experience is the number of strictly earlier games of the log in which
\* that quarterback appeared, at home or away, for any team.
C4_ExperienceCountsEarlierGames ==
    pc = "formatted" =>
        \A i \in DOMAIN table :
            /\ table[i].exp_home
                  = EarlierAppearances(table[i].qb_home, table[i].datetime)
            /\ table[i].exp_away
                  = EarlierAppearances(table[i].qb_away, table[i].datetime)

\* A log in which one quarterback makes a first appearance (exp 0), a
\* second one 21 days later (exp 1) and another has exp 2.
C4_Witness ==
    /\ pc = "formatted"
    /\ \E i, j \in DOMAIN table :
          /\ table[i].qb_home = table[j].qb_away
          /\ table[i].exp_home = 0
          /\ table[j].exp_away = 1
          /\ table[j].datetime - table[i].datetime = 21
    /\ \E i \in DOMAIN table : table[i].exp_home = 2

\* Row i of the output carries game j of the log.
Carries(i, j) ==
    /\ table[i].datetime = rawGames[j].datetime
    /\ table[i].team_home = Canonical(rawGames[j].team_home)
    /\ table[i].team_away = Canonical(rawGames[j].team_away)
    /\ table[i].qb_home = rawGames[j].qb_home
    /\ table[i].qb_away = rawGames[j].qb_away
    /\ table[i].score_home = rawGames[j].score_home
    /\ table[i].score_away = rawGames[j].score_away

AddedColumns == {"rested_home", "rested_away", "exp_home", "exp_away"}

\* C5: the output has exactly one row per game of the log, with the game's
\* date, canonical teams, quarterbacks and scores and the added rest and
\* experience columns, in non-decreasing date order.
C5_SameRowsInDateOrder ==
    pc = "formatted" =>
        /\ Len(table) = Len(rawGames)
        /\ \A j \in DOMAIN rawGames :
              Cardinality({i \in DOMAIN table : Carries(i, j)}) = 1
        /\ \A i \in DOMAIN table : AddedColumns \subseteq DOMAIN table[i]
        /\ \A i, k \in DOMAIN table :
              i < k => table[i].datetime <= table[k].datetime

\* A formatted log of MaxGames games, given out of date order, with an
\* alias team name and two games on one date.
C5_Witness ==
    /\ pc = "formatted"
    /\ Len(rawGames) = MaxGames
    /\ \E j \in DOMAIN rawGames : rawGames[j].team_home # Canonical(rawGames[j].team_home)
    /\ \E i, j \in DOMAIN rawGames :
          i < j /\ rawGames[i].datetime > rawGames[j].datetime
    /\ \E i, j \in DOMAIN rawGames :
          i < j /\ rawGames[i].datetime = rawGames[j].datetime

----------------------------------------------------------------------------
(* __init__'s mode table, regress and bias.  rest_bonus, exp_bonus and      *)
(* regress_coeff are in thousandths; bias is in millionths.                 *)

ValidModes == {"spread", "total"}

\* operator.sub in both modes
CompareSubOnly(mode, a, b) == a - b

\* self.compare: operator.add for 'total', operator.sub for 'spread'

Compare(mode, a, b) == IF mode = "total" THEN a + b ELSE a - b

\* self.commutes
Commutes(mode) == mode = "total"

\* months are in tenths of a month: 30 is the "3" of "months > 3"
ThreeMonths == 30

\* months >= 3 in the place of months > 3
regressInclusive(obj, m) == IF m >= ThreeMonths THEN obj.regress_coeff ELSE 0

regress(obj, m) == IF m > ThreeMonths THEN obj.regress_coeff ELSE 0

\* games.rested_<side>.astype(int)
AsInt(b) == IF b THEN 1 ELSE 0

\* -np.exp(-x / 7.), in thousandths, rounded, for x = 0, 1, ..., 11
NegExpDecay(x) ==
    -(<<1000, 867, 751, 651, 565, 490, 424, 368, 319, 276, 240, 208>>[x + 1])

bias(obj, g) ==
    LET rest_bias == obj.rest_bonus
                       * Compare(obj.mode, AsInt(g.rested_home), AsInt(g.rested_away))
                       * 1000
        exp_bias  == obj.exp_bonus
                       * Compare(obj.mode, NegExpDecay(g.exp_home), NegExpDecay(g.exp_away))
    IN  rest_bias + exp_bias

----------------------------------------------------------------------------
(* Specification of bias: one call on a game, one on the game with its      *)
(* home and away covariates swapped.                                        *)

MaxExp == 3

Bonuses == {-200, 0, 100, 200}

BiasGames ==
    [rested_home : BOOLEAN, rested_away : BOOLEAN,
     exp_home : 0..MaxExp, exp_away : 0..MaxExp]

Swapped(g) ==
    [rested_home |-> g.rested_away, rested_away |-> g.rested_home,
     exp_home |-> g.exp_away, exp_away |-> g.exp_home]

InitBias ==
    /\ pc = "bias"
    /\ self \in [mode : ValidModes, rest_bonus : Bonuses, exp_bonus : Bonuses]
    /\ game \in BiasGames
    /\ months = 0 /\ residuals = <<>> /\ ret = <<>>
    /\ FormatIdle
    /\ CalIdle

CallBias ==
    /\ pc = "bias"
    /\ ret' = Append(ret, bias(self, game))
    /\ pc' = IF ret = <<>> THEN "swap" ELSE "done"
    /\ UNCHANGED <<self, game, months, residuals, fmtVars, calVars>>

SwapSides ==
    /\ pc = "swap"
    /\ game' = Swapped(game)
    /\ pc' = "bias"
    /\ UNCHANGED <<self, months, residuals, ret, fmtVars, calVars>>

NextBias == CallBias \/ SwapSides

SpecBias == InitBias /\ [][NextBias]_vars

\* C7: swapping the home and away rest flags and experience counts negates
\* bias(game) in spread mode and leaves it unchanged in total mode.
C7_BiasSymmetry ==
    pc = "done" =>
        /\ self.mode = "spread" => ret[2] = -ret[1]
        /\ self.mode = "total" => ret[2] = ret[1]

\* Spread mode, with both terms of the bias at work and not zero.
C7_Witness ==
    /\ pc = "done"
    /\ self.mode = "spread"
    /\ self.rest_bonus # 0 /\ self.exp_bonus # 0
    /\ game.rested_home # game.rested_away
    /\ game.exp_home # game.exp_away
    /\ ret[1] # 0
    /\ ret[2] = -ret[1]

\* Total mode, with both terms of the bias at work and not zero.
C7_WitnessTotal ==
    /\ pc = "done"
    /\ self.mode = "total"
    /\ self.rest_bonus # 0 /\ self.exp_bonus # 0
    /\ game.rested_home # game.rested_away
    /\ game.exp_home # game.exp_away
    /\ ret[1] # 0

----------------------------------------------------------------------------
(* Specification of regress *)

MaxMonths == 60

RegressCoeffs == {0, 100, 300, 500}

InitRegress ==
    /\ pc = "regress"
    /\ self \in [mode : ValidModes, regress_coeff : RegressCoeffs]
    /\ months \in 0..MaxMonths
    /\ game = <<>> /\ residuals = <<>> /\ ret = <<>>
    /\ FormatIdle
    /\ CalIdle

CallRegress ==
    /\ pc = "regress"
    /\ ret' = Append(ret, regress(self, months))
    /\ pc' = "done"
    /\ UNCHANGED <<self, game, months, residuals, fmtVars, calVars>>

NextRegress == CallRegress

SpecRegress == InitRegress /\ [][NextRegress]_vars

\* C10: regress(months) is regress_coeff when more than 3 months have
\* elapsed and 0 otherwise; at exactly 3 months it is 0.
C10_RegressStep ==
    pc = "done" =>
        /\ months > 30 => ret[1] = self.regress_coeff
        /\ months <= 30 => ret[1] = 0

\* regress at exactly 3 months with a coefficient that is not 0.
C10_Witness ==
    pc = "done" /\ months = 30 /\ self.regress_coeff = 300 /\ ret = <<0>>

----------------------------------------------------------------------------
(* train's metric: np.sqrt(np.square(residuals[256:]).mean())               *)

BurnIn == 256

Min(a, b) == IF a < b THEN a ELSE b

\* seq[start:] of Python, for start >= 0
SliceFrom(seq, start) == SubSeq(seq, Min(start, Len(seq)) + 1, Len(seq))

\* residuals[255:] in the place of residuals[256:]
BurnedInOffByOne(res) == SliceFrom(res, BurnIn - 1)

BurnedIn(res) == SliceFrom(res, BurnIn)

Square(seq) == [i \in DOMAIN seq |-> seq[i] * seq[i]]

RECURSIVE Sum(_)
Sum(seq) == IF seq = <<>> THEN 0 ELSE seq[1] + Sum(Tail(seq))

NaN == <<"nan">>

\* ndarray.mean(): the quotient sum / size, kept as the pair of the two;
\* nan for an empty array
Mean(seq) == IF seq = <<>> THEN NaN ELSE <<Sum(seq), Len(seq)>>

\* np.sqrt, kept symbolic: <<"sqrt", s, n>> is the square root of s / n
Sqrt(x) == IF x = NaN THEN NaN ELSE <<"sqrt", x[1], x[2]>>

RmsError(res) == Sqrt(Mean(Square(BurnedIn(res))))

----------------------------------------------------------------------------
(* Specification of the training metric.  The residual sequences checked   *)
(* have N games, N = 0, 1 or within Slack of the burn-in, and take one      *)
(* value up to a game p and another value after it.                         *)

Slack == 2

ResidualValues == {-2, 0, 1, 3}

GameCounts == {0, 1} \cup ((BurnIn - Slack)..(BurnIn + Slack))

ResidualSeqs ==
    UNION {{[i \in 1..n |-> IF i <= p THEN a ELSE b] :
                p \in {q \in (BurnIn - Slack)..(BurnIn + Slack) : q <= n} \cup {0},
                a \in ResidualValues, b \in ResidualValues} : n \in GameCounts}

InitTrain ==
    /\ pc = "train"
    /\ self \in [mode : ValidModes]
    /\ residuals \in ResidualSeqs
    /\ game = <<>> /\ months = 0 /\ ret = <<>>
    /\ FormatIdle
    /\ CalIdle

TrainMetric ==
    /\ pc = "train"
    /\ ret' = Append(ret, RmsError(residuals))
    /\ pc' = "done"
    /\ UNCHANGED <<self, game, months, residuals, fmtVars, calVars>>

NextTrain == TrainMetric

SpecTrain == InitTrain /\ [][NextTrain]_vars

\* The sum of the squares of residuals 257..N
RECURSIVE SumSquaresOver(_)
SumSquaresOver(I) ==
    IF I = {} THEN 0
    ELSE LET i == CHOOSE k \in I : TRUE
         IN  residuals[i] * residuals[i] + SumSquaresOver(I \ {i})

C6_WitnessEmpty ==
    pc = "done" /\ Len(residuals) = 256 /\ residuals[256] = 3 /\ ret = <<NaN>>

----------------------------------------------------------------------------
(* The constructor and from_cache *)

AllModes == ValidModes \cup {"moneyline"}

\* no check of the mode
AnyMode(mode) == TRUE

\* "if self.mode not in ['spread', 'total']" fails
ValidMode(mode) == mode \in ValidModes

\* limits[mode]: the bounds of the search, in thousandths
Limits(mode) ==
    IF mode = "spread"
      THEN [kfactor |-> <<100, 400>>, regress_coeff |-> <<100, 500>>,
            rest_bonus |-> <<0, 200>>, exp_bonus |-> <<0, 500>>,
            weight_qb |-> <<0, 1000>>]
      ELSE [kfactor |-> <<0, 300>>, regress_coeff |-> <<100, 500>>,
            rest_bonus |-> <<0, 200>>, exp_bonus |-> <<0, 500>>,
            weight_qb |-> <<0, 1000>>]

HasLimits(mode) == mode \in {"spread", "total"}

ParamNames == {"kfactor", "regress_coeff", "rest_bonus", "exp_bonus", "weight_qb"}

\* space = [hp.uniform(*lim) for lim in limits[mode]]: of the points of the
\* box, the search is given its two opposite corners to propose.
ParamSpace(mode) ==
    {[p \in ParamNames |-> Limits(mode)[p][c]] : c \in {1, 2}}

AllParamPoints == ParamSpace("spread") \cup ParamSpace("total")

\* cls(mode, ...) before __init__ runs its checks: lines 28-33
NewObject(id, mode, params) ==
    [id |-> id, mode |-> mode, params |-> params,
     games |-> "none", ratings |-> "none", rms_error |-> <<>>]

\* The cache files: absent, a pickled model, or bytes pickle cannot load
Absent == <<>>

Corrupt == <<"corrupt">>

Pickle(model) == <<"pickle", model>>

Unpickle(bytes) == bytes[2]

Loadable(bytes) == Len(bytes) = 2

\* A model left in the cache by an earlier calibration
OldModel(mode) ==
    [id |-> 0, mode |-> mode,
     params |-> [p \in ParamNames |-> Limits(mode)[p][1]],
     games |-> "formatted", ratings |-> "trained", rms_error |-> <<1>>]

\* "if cachefile.exists()", whatever calibrate is
UseCacheIgnoringCalibrate(calibrate, bytes) == bytes # Absent

\* "if not calibrate and cachefile.exists()"

UseCache(calibrate, bytes) == ~calibrate /\ bytes # Absent

\* a search that also stops at the first trial of loss 0
SearchOverEarly(ts, steps) ==
    Len(ts) >= steps \/ (ts # <<>> /\ ts[Len(ts)].loss = 0)

\* fmin(..., max_evals=steps): the search goes on until steps trials are in
SearchOver(ts, steps) == Len(ts) >= steps

\* fmin's return value: the point of the first trial of least loss
BestParams(ts) ==
    LET best == CHOOSE i \in DOMAIN ts :
                    /\ \A j \in DOMAIN ts : ts[i].loss <= ts[j].loss
                    /\ \A j \in 1..(i - 1) : ts[j].loss > ts[i].loss
    IN  ts[best].params

Event(kind, obj) == [kind |-> kind, obj |-> obj]

Returned(value) == [kind |-> "returned", value |-> value]

Raised(error) == [kind |-> "raised", value |-> error]

----------------------------------------------------------------------------
(* Specification of one call of from_cache or of the constructor *)

MaxSteps == 2

Losses == {0, 1, 2}

Init ==
    /\ pc = "idle"
    /\ self = NoSelf
    /\ args = <<>>
    /\ entry = <<>>
    /\ cache \in {c \in [AllModes -> {Absent, Corrupt} \cup {Pickle(OldModel(m)) : m \in ValidModes}] :
                    \A m \in AllModes : Loadable(c[m]) => Unpickle(c[m]).mode = m}
    /\ trials = <<>>
    /\ events = <<>>
    /\ result = <<>>
    /\ caller = "none"
    /\ nextId = 1
    /\ FormatIdle
    /\ PureIdle

\* from_cache(mode, steps, calibrate) is called: line 245
CallFromCache ==
    /\ pc = "idle"
    /\ \E m \in AllModes, s \in 1..MaxSteps, c \in BOOLEAN :
          args' = [op |-> "from_cache", mode |-> m, steps |-> s, calibrate |-> c]
    /\ entry' = cache
    /\ pc' = "from_cache"
    /\ UNCHANGED <<self, cache, trials, events, result, caller, nextId,
                   fmtVars, pureVars>>

\* lines 247-249, pickle.load succeeding
ReturnCached ==
    /\ pc = "from_cache"
    /\ UseCache(args.calibrate, cache[args.mode])
    /\ Loadable(cache[args.mode])
    /\ result' = Returned(Unpickle(cache[args.mode]))
    /\ pc' = "returned"
    /\ UNCHANGED <<self, args, entry, cache, trials, events, caller, nextId,
                   fmtVars, pureVars>>

\* lines 247-249, pickle.load raising: nothing catches it
LoadCorrupt ==
    /\ pc = "from_cache"
    /\ UseCache(args.calibrate, cache[args.mode])
    /\ ~Loadable(cache[args.mode])
    /\ result' = Raised("UnpicklingError")
    /\ pc' = "raised"
    /\ UNCHANGED <<self, args, entry, cache, trials, events, caller, nextId,
                   fmtVars, pureVars>>

\* line 271: limits[mode] of a mode that has no limits
NoLimits ==
    /\ pc = "from_cache"
    /\ ~UseCache(args.calibrate, cache[args.mode])
    /\ ~HasLimits(args.mode)
    /\ result' = Raised("KeyError")
    /\ pc' = "raised"
    /\ UNCHANGED <<self, args, entry, cache, trials, events, caller, nextId,
                   fmtVars, pureVars>>

\* lines 271-277: the space, the Trials and load_games(update=True)
RefreshData ==
    /\ pc = "from_cache"
    /\ ~UseCache(args.calibrate, cache[args.mode])
    /\ HasLimits(args.mode)
    /\ trials' = <<>>
    /\ events' = Append(events, Event("refresh", 0))
    /\ pc' = "fmin"
    /\ UNCHANGED <<self, args, entry, cache, result, caller, nextId,
                   fmtVars, pureVars>>

\* fmin proposes a point and calls objective(params): cls(mode, *params)
StartTrial ==
    /\ pc = "fmin"
    /\ ~SearchOver(trials, args.steps)
    /\ \E p \in ParamSpace(args.mode) : self' = NewObject(nextId, args.mode, p)
    /\ nextId' = nextId + 1
    /\ caller' = "objective"
    /\ pc' = "init"
    /\ UNCHANGED <<args, entry, cache, trials, events, result, fmtVars, pureVars>>

\* MeloNFL(mode, ...) called by the user
CallConstructor ==
    /\ pc = "idle"
    /\ \E m \in AllModes, p \in AllParamPoints :
          /\ args' = [op |-> "constructor", mode |-> m, params |-> p]
          /\ self' = NewObject(nextId, m, p)
    /\ nextId' = nextId + 1
    /\ caller' = "user"
    /\ pc' = "init"
    /\ UNCHANGED <<entry, cache, trials, events, result, fmtVars, pureVars>>

\* __init__, lines 36-38
RejectMode ==
    /\ pc = "init"
    /\ ~ValidMode(self.mode)
    /\ result' = Raised("ValueError")
    /\ pc' = "raised"
    /\ UNCHANGED <<self, args, entry, cache, trials, events, caller, nextId,
                   fmtVars, pureVars>>

\* __init__, lines 41-49: the mode table, load_games(update=False) and
\* format_gamedata
LoadGames ==
    /\ pc = "init"
    /\ ValidMode(self.mode)
    /\ events' = Append(events, Event("load_games", self.id))
    /\ self' = [self EXCEPT !.games = "formatted"]
    /\ pc' = "train"
    /\ UNCHANGED <<args, entry, cache, trials, result, caller, nextId,
                   fmtVars, pureVars>>

\* __init__, line 52, and train: Melo.__init__ gives the object its own
\* empty ratings, fit fills them, rms_error is the metric of the residuals.
\* The event keeps the state the object's ratings were in before.
Train ==
    /\ pc = "train"
    /\ events' = Append(events,
                        [kind |-> "train", obj |-> self.id, ratings |-> self.ratings])
    /\ \E loss \in Losses :
          self' = [self EXCEPT !.ratings = "trained", !.rms_error = <<loss>>]
    /\ pc' = "constructed"
    /\ UNCHANGED <<args, entry, cache, trials, result, caller, nextId,
                   fmtVars, pureVars>>

\* the constructor returns to the user
ReturnConstructed ==
    /\ pc = "constructed"
    /\ caller = "user"
    /\ result' = Returned(self)
    /\ pc' = "returned"
    /\ UNCHANGED <<self, args, entry, cache, trials, events, caller, nextId,
                   fmtVars, pureVars>>

\* objective returns cls(mode, *params).rms_error; fmin records the trial
EndTrial ==
    /\ pc = "constructed"
    /\ caller = "objective"
    /\ trials' = Append(trials, [params |-> self.params, loss |-> self.rms_error[1]])
    /\ pc' = "fmin"
    /\ UNCHANGED <<self, args, entry, cache, events, result, caller, nextId,
                   fmtVars, pureVars>>

\* fmin returns; line 282: model = cls(mode, **parameters)
StartFinal ==
    /\ pc = "fmin"
    /\ SearchOver(trials, args.steps)
    /\ self' = NewObject(nextId, args.mode, BestParams(trials))
    /\ nextId' = nextId + 1
    /\ caller' = "from_cache"
    /\ pc' = "init"
    /\ UNCHANGED <<args, entry, cache, trials, events, result, fmtVars, pureVars>>

\* line 284: cls.visualize_hyperopt(mode, trials, parameters)
Visualize ==
    /\ pc = "constructed"
    /\ caller = "from_cache"
    /\ events' = Append(events, Event("render", 0))
    /\ pc' = "dump"
    /\ UNCHANGED <<self, args, entry, cache, trials, result, caller, nextId,
                   fmtVars, pureVars>>

\* lines 286-292: the cache directory, pickle.dump and return model
WriteCache ==
    /\ pc = "dump"
    /\ cache' = [cache EXCEPT ![args.mode] = Pickle(self)]
    /\ events' = Append(events, Event("cache_write", self.id))
    /\ result' = Returned(self)
    /\ pc' = "returned"
    /\ UNCHANGED <<self, args, entry, trials, caller, nextId, fmtVars, pureVars>>

Next ==
    \/ CallFromCache \/ ReturnCached \/ LoadCorrupt \/ NoLimits
    \/ RefreshData \/ StartTrial \/ EndTrial \/ StartFinal
    \/ Visualize \/ WriteCache
    \/ CallConstructor \/ RejectMode \/ LoadGames \/ Train
    \/ ReturnConstructed

Spec == Init /\ [][Next]_vars

----------------------------------------------------------------------------
(* Claims about from_cache and the constructor *)

CacheHit == ~args.calibrate /\ entry[args.mode] # <<>>

KindsOf(evs) == [i \in DOMAIN evs |-> evs[i].kind]

\* C1: from_cache returns the model that was in the cache for mode, with no
\* trial, no refresh and no cache write, exactly when calibrate is false
\* and the cache had an entry for mode; in every other case it runs the
\* full search, and when it returns the cache entry for mode holds the
\* model it returned.
C1_CachedOrCalibrated ==
    (pc = "returned" /\ args.op = "from_cache") =>
        IF CacheHit
          THEN /\ result.value = entry[args.mode][2]
               /\ events = <<>>
               /\ trials = <<>>
               /\ cache = entry
          ELSE /\ Len(trials) = args.steps
               /\ \E i \in DOMAIN events : events[i].kind = "refresh"
               /\ result.value.id > 0
               /\ result.value.ratings = "trained"
               /\ cache[args.mode] = <<"pickle", result.value>>

\* from_cache has returned the cached model to a caller who did not ask for
\* a calibration.
C1_Witness ==
    /\ pc = "returned"
    /\ args.op = "from_cache"
    /\ ~args.calibrate
    /\ result = Returned(OldModel("spread"))

\* from_cache has calibrated over a cache entry that existed.
C1_WitnessCalibrated ==
    /\ pc = "returned"
    /\ args.op = "from_cache"
    /\ args.calibrate
    /\ entry[args.mode] = Pickle(OldModel(args.mode))
    /\ cache[args.mode] # entry[args.mode]

\* C2: constructing MeloNFL with a mode other than 'spread' or 'total'
\* fails with ValueError before any data is touched: no load_games call,
\* no game table, no training, whatever the other hyperparameters.
C2_InvalidModeFailsFirst ==
    (args # <<>> /\ args.op = "constructor"
        /\ args.mode \notin {"spread", "total"} /\ pc # "init") =>
        /\ pc = "raised"
        /\ result = [kind |-> "raised", value |-> "ValueError"]
        /\ events = <<>>
        /\ self.games = "none"
        /\ self.ratings = "none"
        /\ self.rms_error = <<>>

\* The constructor has rejected the mode 'moneyline'.
C2_Witness ==
    /\ pc = "raised"
    /\ args.op = "constructor"
    /\ args.mode = "moneyline"
    /\ args.params = [p \in ParamNames |-> Limits("spread")[p][2]]
    /\ result = Raised("ValueError")

\* C8: from_cache called with calibrate false on a cache entry that cannot
\* be deserialized does not crash the caller: the failure is surfaced as a
\* corrupt-cache error kind and forces a recalibration, after which a
\* freshly calibrated model is returned and cached.
C8_CorruptCacheRecalibrates ==
    (pc \in {"returned", "raised"} /\ args.op = "from_cache"
        /\ ~args.calibrate /\ entry[args.mode] = Corrupt /\ HasLimits(args.mode)) =>
        /\ pc = "returned"
        /\ \E i \in DOMAIN events : events[i].kind = "corrupt_cache"
        /\ Len(trials) = args.steps
        /\ result.value.ratings = "trained"
        /\ cache[args.mode] = Pickle(result.value)

\* The events of a calibration of the given number of steps: the refresh,
\* then for each trial and for the final model a new object that loads the
\* games and trains from ratings no training has touched, then the render
\* and the cache write.
ExpectedEvents(steps) ==
    [i \in 1..(2 * steps + 5) |->
        IF i = 1 THEN [kind |-> "refresh", obj |-> 0]
        ELSE IF i = 2 * steps + 4 THEN [kind |-> "render", obj |-> 0]
        ELSE IF i = 2 * steps + 5 THEN [kind |-> "cache_write", obj |-> steps + 1]
        ELSE IF i % 2 = 0 THEN [kind |-> "load_games", obj |-> i \div 2]
        ELSE [kind |-> "train", obj |-> i \div 2, ratings |-> "none"]]

IsPrefix(s, t) == Len(s) <= Len(t) /\ s = SubSeq(t, 1, Len(s))

\* C9: on the calibration path the events are, in this order and whatever
\* the losses: one data refresh; exactly steps trials, each on a new model
\* instance trained from fresh rating state; one final model trained at the
\* best point found; the diagnostics render; one cache write of that final
\* model under mode.  No cache write comes before the final model is
\* trained and the search never stops early.
C9_CalibrationOrder ==
    (args # <<>> /\ args.op = "from_cache") =>
        /\ IsPrefix(events, ExpectedEvents(args.steps))
        /\ cache # entry => events = ExpectedEvents(args.steps)
        /\ (pc = "returned" /\ events # <<>>) =>
              /\ events = ExpectedEvents(args.steps)
              /\ Len(trials) = args.steps
              /\ result.value = self
              /\ cache = [entry EXCEPT ![args.mode] = <<"pickle", self>>]
              /\ \E i \in DOMAIN trials :
                    /\ trials[i].params = self.params
                    /\ \A j \in DOMAIN trials : trials[i].loss <= trials[j].loss

\* A calibration of MaxSteps steps has returned; its first trial had loss
\* 0 and a later one a greater loss.
C9_Witness ==
    /\ pc = "returned"
    /\ args.op = "from_cache"
    /\ args.steps = MaxSteps
    /\ Len(trials) = MaxSteps
    /\ trials[1].loss = 0
    /\ trials[MaxSteps].loss = 2
    /\ trials[1].params # trials[MaxSteps].params
    /\ KindsOf(events)[Len(events)] = "cache_write"

====
